---- MODULE Spec2Model ----
(***************************************************************************)
(* A model of two pieces of jsons:                                         *)
(*   - jsons/deserializers/default_union.py : default_union_deserializer   *)
(*   - jsons/decorators.py                  : loaded / dumped decorators   *)
(* Each piece has its own specification (UnionSpec, AdapterSpec); the      *)
(* variables of the other piece stay at their initial values.              *)
(***************************************************************************)
EXTENDS Integers, Sequences, FiniteSets, TLC

\* ------------------------------------------------------------------ bounds
MaxCands == 3       \* longest Union[...] argument list explored
MaxParams == 2      \* most declared parameters of a decorated callable
MaxArgs == 2        \* most positional arguments of one wrapper invocation

VARIABLES
    \* default_union_deserializer
    obj,            \* the object to deserialize
    cls,            \* the Union: its ordered __args__
    loadBehaviour,  \* how jsons.load answers for each target type (environment)
    u_pc,           \* "loop" | "returned" | "propagated" | "raised" ("idle": not running)
    u_i,            \* 1-based index of the next sub_type of the for loop
    u_loads,        \* the load(obj, sub_type) calls made so far, in order
    u_out,          \* what the deserializer returned or raised
    \* decorators
    decorated,      \* the decorated target: kind, parameters, return annotation
    parameters,     \* loaded(parameters=...)
    returnvalue,    \* loaded(returnvalue=...)
    wrapper,        \* "none" | "_wrapper" | "_async_wrapper"
    a_pc,           \* "start" | "decor_error" | "ready" | "sig" | "map" | "call" |
                    \* "await" | "ret" ("idle": no decorator in use)
    args,           \* positional arguments of the current invocation
    new_args,       \* _map_args' new_args so far
    result,         \* the wrapper's local `result`
    log,            \* events of the current invocation, in order
    outcome,        \* how the last finished invocation (or decoration) ended
    failedBefore    \* some earlier invocation ended in a conversion failure

uvars == <<obj, cls, loadBehaviour, u_pc, u_i, u_loads, u_out>>
avars == <<decorated, parameters, returnvalue, wrapper, a_pc, args, new_args,
           result, log, outcome, failedBefore>>
vars == <<uvars, avars>>

\* ------------------------------------------------------------ common helpers
SeqsUpTo(S, lo, hi) == UNION {[1..n -> S] : n \in lo..hi}

Distinct(s) == \A i, j \in DOMAIN s : i # j => s[i] # s[j]

\* ================================================== default_union_deserializer
\* The types a Union may list. A type is known to the model by its __name__.
Types == {[name |-> "int"], [name |-> "str"], [name |-> "bool"], [name |-> "float"]}

\* Objects handed to the deserializer, with their runtime type (type(obj)).
Objs == {[v |-> "hello", rt |-> [name |-> "str"]], [v |-> "5", rt |-> [name |-> "int"]]}

\* typing.Union removes duplicate arguments and a Union of one type is that type.
Unions == {c \in SeqsUpTo(Types, 2, MaxCands) : Distinct(c)}

LoadKinds == {"ok", "JsonsError", "OtherError"}

\* get_union_params(cls): the Union's arguments in declared order.
get_union_params(c) == c

\* get_class_name(cls_): the human-readable name of a type.
get_class_name(t) == t.name

\* str(cls) of a typing.Union: "typing.Union[" args "]", kept as its parts.
StrOfUnion(c) == <<"typing.Union">> \o [i \in DOMAIN c |-> c[i].name]

\* str(type(obj)) kept in the same shape.
StrOfType(t) == <<t.name>>

\* jsons.load(obj, sub_type, **kwargs): succeeds with a value built from obj for
\* sub_type, or raises a JsonsError, or raises something else.
Load(o, t) == [kind |-> loadBehaviour[t.name], value |-> [of |-> o.v, as |-> t.name]]

UnionInit ==
    /\ obj \in Objs
    /\ cls \in Unions
    /\ loadBehaviour \in [{t.name : t \in Types} -> LoadKinds]
    /\ u_pc = "loop"
    /\ u_i = 1
    /\ u_loads = <<>>
    /\ u_out = [kind |-> "none"]

\* One iteration of `for sub_type in get_union_params(cls)` that catches nothing
\* but JsonsError.  (Variant: `except Exception: pass`.)
TryCandidate_CatchAll ==
    /\ u_pc = "loop"
    /\ u_i <= Len(get_union_params(cls))
    /\ LET sub_type == get_union_params(cls)[u_i]
           r == Load(obj, sub_type)
       IN /\ u_loads' = Append(u_loads, sub_type)
          /\ IF r.kind = "ok"
             THEN /\ u_pc' = "returned"
                  /\ u_out' = [kind |-> "value", value |-> r.value]
                  /\ u_i' = u_i
             ELSE /\ u_pc' = "loop"
                  /\ u_i' = u_i + 1
                  /\ u_out' = u_out
    /\ UNCHANGED <<obj, cls, loadBehaviour>>
    /\ UNCHANGED avars

\* Variant: a success is remembered and the loop goes on (the last match wins).
TryCandidate_LastWins ==
    /\ u_pc = "loop"
    /\ u_i <= Len(get_union_params(cls))
    /\ LET sub_type == get_union_params(cls)[u_i]
           r == Load(obj, sub_type)
           last == u_i = Len(get_union_params(cls))
       IN /\ u_loads' = Append(u_loads, sub_type)
          /\ IF r.kind = "OtherError"
             THEN /\ u_pc' = "propagated"
                  /\ u_out' = [kind |-> "OtherError"]
                  /\ u_i' = u_i
             ELSE /\ u_out' = IF r.kind = "ok"
                              THEN [kind |-> "value", value |-> r.value]
                              ELSE u_out
                  /\ u_pc' = IF last /\ u_out'.kind = "value" THEN "returned" ELSE "loop"
                  /\ u_i' = IF last /\ u_out'.kind = "value" THEN u_i ELSE u_i + 1
    /\ UNCHANGED <<obj, cls, loadBehaviour>>
    /\ UNCHANGED avars

\* One iteration of the for loop: try: return load(obj, sub_type, **kwargs)
\* except JsonsError: pass
TryCandidate ==
    /\ u_pc = "loop"
    /\ u_i <= Len(get_union_params(cls))
    /\ LET sub_type == get_union_params(cls)[u_i]
           r == Load(obj, sub_type)
       IN /\ u_loads' = Append(u_loads, sub_type)
          /\ CASE r.kind = "ok" ->
                    /\ u_pc' = "returned"
                    /\ u_out' = [kind |-> "value", value |-> r.value]
                    /\ u_i' = u_i
               [] r.kind = "JsonsError" ->
                    /\ u_pc' = "loop"
                    /\ u_i' = u_i + 1
                    /\ u_out' = u_out
               [] OTHER ->
                    /\ u_pc' = "propagated"
                    /\ u_out' = [kind |-> "OtherError"]
                    /\ u_i' = u_i
    /\ UNCHANGED <<obj, cls, loadBehaviour>>
    /\ UNCHANGED avars

\* The for loop's else branch: every sub_type was tried, raise DeserializationError.
\* The message is kept as the two values formatted into it.
Exhausted ==
    /\ u_pc = "loop"
    /\ u_i > Len(get_union_params(cls))
    /\ u_pc' = "raised"
    /\ u_out' = [kind |-> "DeserializationError",
                 objType |-> StrOfUnion(cls),
                 args_msg |-> [k \in DOMAIN cls |-> get_class_name(cls[k])]]
    /\ UNCHANGED <<obj, cls, loadBehaviour, u_i, u_loads>>
    /\ UNCHANGED avars

UnionNext == TryCandidate \/ Exhausted


\* ================================================================ decorators
\* What `decorated` may be when _decorator receives it.
Callables == {"function", "coroutinefunction"}
Kinds == Callables \cup {"staticmethod", "classmethod", "type"}

Empty == "Parameter.empty"
None == "None"
Annotations == {Empty, "int"}
ParamNames == {"self", "cls", "x"}

\* inspect.Parameter: name and annotation.
Params == [name : ParamNames, annotation : Annotations]

\* The parameter lists of a callable: parameter names are distinct.
ParamLists ==
    {ps \in SeqsUpTo(Params, 0, MaxParams) :
        \A i, j \in DOMAIN ps : i # j => ps[i].name # ps[j].name}

\* The targets: a callable with its signature, or a staticmethod / classmethod
\* descriptor or a class, none of which is read for a signature before it fails.
Targets ==
    [kind : Callables, params : ParamLists, ret : Annotations]
    \cup [kind : Kinds \ Callables, params : {<<>>}, ret : {Empty}]

\* Positional arguments: whether hasattr(arg, decorated.__name__) holds and how
\* the mapper answers for the argument.
ArgObjs == [hasattr : BOOLEAN, conv : {"ok", "JsonsError"}]

\* What calling `decorated` yields.  `conv` is how the mapper answers when
\* handed the object.  A function returns a plain value or an awaitable that
\* nobody has awaited yet; a coroutine function returns a coroutine, which ends
\* resolved (with a plain value), cancelled or failed once awaited.
PlainValues == [kind : {"value"}, conv : {"ok", "JsonsError"}]
PendingAwaitables ==
    [kind : {"awaitable"}, conv : {"ok", "JsonsError"},
     ends : {"pending"}, inner : {[kind |-> "none"]}]
Coroutines ==
    [kind : {"awaitable"}, conv : {"ok"},
     ends : {"CancelledError", "Exception"}, inner : {[kind |-> "none"]}]
    \cup [kind : {"awaitable"}, conv : {"ok"},
          ends : {"resolved"}, inner : PlainValues]

NoValue == [kind |-> "none"]

\* inspect.isawaitable
isawaitable(r) == r.kind = "awaitable"

\* inspect.iscoroutinefunction
iscoroutinefunction(d) == d.kind = "coroutinefunction"

\* mapper(arg, cls=cls, fork_inst=fork_inst, **mapper_kwargs): jsons.load or
\* jsons.dump, a deterministic function of its request.
Mapper(v, c) == [kind |-> v.conv, value |-> [kind |-> "mapped", of |-> v, cls |-> c]]

\* cls = annotation if annotation != Parameter.empty else None
TargetOf(annotation) == IF annotation # Empty THEN annotation ELSE None

\* Variant of the receiver test: the parameter name alone decides.
IsReceiver_NameOnly(arg, sig) == sig.name \in {"self", "cls"}

\* sig.name in ('self', 'cls') and hasattr(arg, decorated.__name__)
IsReceiver(arg, sig) == sig.name \in {"self", "cls"} /\ arg.hasattr

Event(op, pos, c, val) == [op |-> op, pos |-> pos, cls |-> c, val |-> val]

Raised(err, pos) == [kind |-> "raised", error |-> err, pos |-> pos, value |-> NoValue]
Returned(v) == [kind |-> "returned", error |-> "none", pos |-> 0, value |-> v]

NoOutcome == [kind |-> "none", error |-> "none", pos |-> 0, value |-> NoValue]

AdapterInit ==
    /\ decorated \in Targets
    /\ parameters \in BOOLEAN
    /\ returnvalue \in BOOLEAN
    /\ wrapper = "none"
    /\ a_pc = "start"
    /\ args = <<>>
    /\ new_args = <<>>
    /\ result = NoValue
    /\ log = <<>>
    /\ outcome = NoOutcome
    /\ failedBefore = FALSE

\* The invocation in progress ends: the wrapper is ready for the next call.
Finish(out) ==
    /\ a_pc' = "ready"
    /\ outcome' = out
    /\ failedBefore' = (failedBefore \/ (out.kind = "raised" /\ out.error = "JsonsError"))

\* Variant of _decorator: every callable gets the ordinary wrapper.
Decorate_AlwaysSync ==
    /\ a_pc = "start"
    /\ IF decorated.kind = "staticmethod"
       THEN /\ a_pc' = "decor_error"
            /\ wrapper' = "none"
            /\ outcome' = Raised("Cannot decorate a static- or classmethod.", 0)
       ELSE IF decorated.kind = "type"
       THEN /\ a_pc' = "decor_error"
            /\ wrapper' = "none"
            /\ outcome' = Raised("Cannot decorate a class.", 0)
       ELSE /\ a_pc' = "ready"
            /\ wrapper' = "_wrapper"
            /\ outcome' = outcome
    /\ UNCHANGED <<decorated, parameters, returnvalue, args, new_args, result, log,
                   failedBefore>>
    /\ UNCHANGED uvars

\* _decorator(decorated): reject a staticmethod and a class, otherwise hand out
\* _async_wrapper for a coroutine function and _wrapper for anything else.
Decorate ==
    /\ a_pc = "start"
    /\ IF decorated.kind = "staticmethod"
       THEN /\ a_pc' = "decor_error"
            /\ wrapper' = "none"
            /\ outcome' = Raised("Cannot decorate a static- or classmethod.", 0)
       ELSE IF decorated.kind = "type"
       THEN /\ a_pc' = "decor_error"
            /\ wrapper' = "none"
            /\ outcome' = Raised("Cannot decorate a class.", 0)
       ELSE /\ a_pc' = "ready"
            /\ wrapper' = IF iscoroutinefunction(decorated)
                          THEN "_async_wrapper" ELSE "_wrapper"
            /\ outcome' = outcome
    /\ UNCHANGED <<decorated, parameters, returnvalue, args, new_args, result, log,
                   failedBefore>>
    /\ UNCHANGED uvars

\* _wrapper(*args, **kwargs) / _async_wrapper(*args, **kwargs) is entered and
\* _run_decorated starts: new_args = args, and _map_args runs if a mapper is given.
Invoke ==
    /\ a_pc = "ready"
    /\ \E a \in SeqsUpTo(ArgObjs, 0, MaxArgs) :
          /\ args' = a
          /\ new_args' = IF parameters THEN <<>> ELSE a
    /\ log' = <<>>
    /\ result' = NoValue
    /\ outcome' = NoOutcome
    /\ a_pc' = IF parameters THEN "sig" ELSE "call"
    /\ UNCHANGED <<decorated, parameters, returnvalue, wrapper, failedBefore>>
    /\ UNCHANGED uvars

\* Variant of _get_params_sig / _map_args: when there are more arguments than
\* parameter names nothing is paired and the arguments are passed on as given.
GetParamsSig_PassThrough ==
    /\ a_pc = "sig"
    /\ log' = Append(log, Event("signature", 0, None, NoValue))
    /\ IF decorated.kind \notin Callables
       THEN Finish(Raised("TypeError", 0)) /\ UNCHANGED new_args
       ELSE IF Len(args) > Len(decorated.params)
       THEN /\ a_pc' = "call"
            /\ new_args' = args
            /\ UNCHANGED <<outcome, failedBefore>>
       ELSE /\ a_pc' = "map"
            /\ UNCHANGED <<new_args, outcome, failedBefore>>
    /\ UNCHANGED <<decorated, parameters, returnvalue, wrapper, args, result>>
    /\ UNCHANGED uvars

\* _get_params_sig(args, func): signature(func), then pair args[i] with the i-th
\* parameter; param_names[i] raises IndexError when there are more arguments
\* than parameter names.  signature() of an object that is not callable raises
\* TypeError.
GetParamsSig ==
    /\ a_pc = "sig"
    /\ log' = Append(log, Event("signature", 0, None, NoValue))
    /\ IF decorated.kind \notin Callables
       THEN Finish(Raised("TypeError", 0))
       ELSE IF Len(args) > Len(decorated.params)
       THEN Finish(Raised("IndexError", 0))
       ELSE /\ a_pc' = "map"
            /\ UNCHANGED <<outcome, failedBefore>>
    /\ UNCHANGED <<decorated, parameters, returnvalue, wrapper, args, new_args, result>>
    /\ UNCHANGED uvars

\* Variant of the _map_args loop body: a failed conversion leaves the argument
\* as it was and the loop goes on.
MapArg_KeepGoing ==
    /\ a_pc = "map"
    /\ IF Len(new_args) = Len(args)
       THEN /\ a_pc' = "call"
            /\ UNCHANGED <<new_args, log, outcome, failedBefore>>
       ELSE LET i == Len(new_args) + 1
                arg == args[i]
                sig == decorated.params[i]
                c == TargetOf(sig.annotation)
                m == Mapper(arg, c)
            IN IF IsReceiver(arg, sig)
               THEN /\ new_args' = Append(new_args, arg)
                    /\ UNCHANGED <<a_pc, log, outcome, failedBefore>>
               ELSE /\ log' = Append(log, Event("convert", i, c, arg))
                    /\ new_args' = Append(new_args, IF m.kind = "ok" THEN m.value ELSE arg)
                    /\ UNCHANGED <<a_pc, outcome, failedBefore>>
    /\ UNCHANGED <<decorated, parameters, returnvalue, wrapper, args, result>>
    /\ UNCHANGED uvars

\* One turn of `for arg, sig in params_sig` in _map_args: the receiver is kept
\* as it is, anything else goes through the mapper with the parameter's
\* annotation; a mapper error leaves _map_args, _run_decorated and the wrapper.
\* After the last pair, _map_args returns new_args.
MapArg ==
    /\ a_pc = "map"
    /\ IF Len(new_args) = Len(args)
       THEN /\ a_pc' = "call"
            /\ UNCHANGED <<new_args, log, outcome, failedBefore>>
       ELSE LET i == Len(new_args) + 1
                arg == args[i]
                sig == decorated.params[i]
                c == TargetOf(sig.annotation)
                m == Mapper(arg, c)
            IN IF IsReceiver(arg, sig)
               THEN /\ new_args' = Append(new_args, arg)
                    /\ UNCHANGED <<a_pc, log, outcome, failedBefore>>
               ELSE /\ log' = Append(log, Event("convert", i, c, arg))
                    /\ IF m.kind = "ok"
                       THEN /\ new_args' = Append(new_args, m.value)
                            /\ UNCHANGED <<a_pc, outcome, failedBefore>>
                       ELSE /\ Finish(Raised(m.kind, i))
                            /\ UNCHANGED new_args
    /\ UNCHANGED <<decorated, parameters, returnvalue, wrapper, args, result>>
    /\ UNCHANGED uvars

\* result = decorated(*new_args, **kwargs): a classmethod object is not
\* callable; a function returns an object or raises; a coroutine function
\* returns its coroutine.  _wrapper goes on to the return value, _async_wrapper
\* to the isawaitable test.
CallDecorated ==
    /\ a_pc = "call"
    /\ LET called == Append(log, Event("call", 0, None, [kind |-> "args", of |-> new_args]))
       IN IF decorated.kind \notin Callables
          THEN /\ log' = log
               /\ result' = result
               /\ Finish(Raised("TypeError", 0))
          ELSE \/ /\ decorated.kind = "function"
                  /\ log' = called
                  /\ result' = result
                  /\ Finish(Raised("Exception", 0))
               \/ /\ \E r \in (IF iscoroutinefunction(decorated)
                               THEN Coroutines ELSE PlainValues \cup PendingAwaitables) :
                         result' = r
                  /\ log' = called
                  /\ a_pc' = IF wrapper = "_async_wrapper" THEN "await" ELSE "ret"
                  /\ UNCHANGED <<outcome, failedBefore>>
    /\ UNCHANGED <<decorated, parameters, returnvalue, wrapper, args, new_args>>
    /\ UNCHANGED uvars

\* Variant of _async_wrapper: the await is left out.
AwaitResult_NoAwait ==
    /\ a_pc = "await"
    /\ a_pc' = "ret"
    /\ UNCHANGED <<decorated, parameters, returnvalue, wrapper, args, new_args, result,
                   log, outcome, failedBefore>>
    /\ UNCHANGED uvars

\* _async_wrapper: if isawaitable(result): result = await result.  The await
\* yields the value, or raises what the awaited operation raised
\* (CancelledError when it was cancelled).
AwaitResult ==
    /\ a_pc = "await"
    /\ IF isawaitable(result)
       THEN /\ log' = Append(log, Event("await", 0, None, result))
            /\ IF result.ends = "resolved"
               THEN /\ result' = result.inner
                    /\ a_pc' = "ret"
                    /\ UNCHANGED <<outcome, failedBefore>>
               ELSE /\ Finish(Raised(result.ends, 0))
                    /\ UNCHANGED result
       ELSE /\ a_pc' = "ret"
            /\ UNCHANGED <<log, result, outcome, failedBefore>>
    /\ UNCHANGED <<decorated, parameters, returnvalue, wrapper, args, new_args>>
    /\ UNCHANGED uvars

\* Variant of _map_returnvalue: the return annotation is taken from a cache
\* filled by an earlier signature() of the same invocation.
MapReturnvalue_Cached ==
    /\ a_pc = "ret"
    /\ IF returnvalue
       THEN LET c == TargetOf(decorated.ret)
                m == Mapper(result, c)
                seen == \E k \in DOMAIN log : log[k].op = "signature"
            IN /\ log' = (IF seen THEN log
                          ELSE Append(log, Event("signature", 0, None, NoValue)))
                         \o <<Event("retconvert", 0, c, result)>>
               /\ result' = IF m.kind = "ok" THEN m.value ELSE result
               /\ Finish(IF m.kind = "ok" THEN Returned(m.value) ELSE Raised(m.kind, 0))
       ELSE /\ Finish(Returned(result))
            /\ UNCHANGED <<log, result>>
    /\ UNCHANGED <<decorated, parameters, returnvalue, wrapper, args, new_args>>
    /\ UNCHANGED uvars

\* if returnvalue: result = _map_returnvalue(result, ...), which reads
\* signature(decorated).return_annotation and calls the mapper; return result.
MapReturnvalue ==
    /\ a_pc = "ret"
    /\ IF returnvalue
       THEN LET c == TargetOf(decorated.ret)
                m == Mapper(result, c)
            IN /\ log' = log \o <<Event("signature", 0, None, NoValue),
                                  Event("retconvert", 0, c, result)>>
               /\ result' = IF m.kind = "ok" THEN m.value ELSE result
               /\ Finish(IF m.kind = "ok" THEN Returned(m.value) ELSE Raised(m.kind, 0))
       ELSE /\ Finish(Returned(result))
            /\ UNCHANGED <<log, result>>
    /\ UNCHANGED <<decorated, parameters, returnvalue, wrapper, args, new_args>>
    /\ UNCHANGED uvars

AdapterNext ==
    \/ Decorate
    \/ Invoke
    \/ GetParamsSig
    \/ MapArg
    \/ CallDecorated
    \/ AwaitResult
    \/ MapReturnvalue

\* ============================================================ specifications
\* While one piece runs the other rests in a fixed state.
UnionIdle ==
    /\ obj = [v |-> "hello", rt |-> [name |-> "str"]]
    /\ cls = <<[name |-> "int"], [name |-> "bool"]>>
    /\ loadBehaviour = [n \in {t.name : t \in Types} |-> "ok"]
    /\ u_pc = "idle"
    /\ u_i = 1
    /\ u_loads = <<>>
    /\ u_out = [kind |-> "none"]

AdapterIdle ==
    /\ decorated = [kind |-> "function", params |-> <<>>, ret |-> Empty]
    /\ parameters = TRUE
    /\ returnvalue = TRUE
    /\ wrapper = "none"
    /\ a_pc = "idle"
    /\ args = <<>>
    /\ new_args = <<>>
    /\ result = NoValue
    /\ log = <<>>
    /\ outcome = NoOutcome
    /\ failedBefore = FALSE

UnionSpecInit == UnionInit /\ AdapterIdle

UnionSpec == UnionSpecInit /\ [][UnionNext]_vars

AdapterSpecInit == AdapterInit /\ UnionIdle

AdapterSpec == AdapterSpecInit /\ [][AdapterNext]_vars

\* ==================================================================== claims
\* ------------------------------------------------ default_union_deserializer
\* The lowest index whose load does not raise a JsonsError, if there is one.
Decisive(k) ==
    /\ k \in DOMAIN cls
    /\ Load(obj, cls[k]).kind # "JsonsError"
    /\ \A j \in 1..(k - 1) : Load(obj, cls[j]).kind = "JsonsError"

\* C1: when load succeeds for the candidate at index k and raised a JsonsError
\* for every candidate before it, the deserializer returns load(obj, cls[k]),
\* having tried exactly the candidates 1..k in order, and at no time has it
\* tried a candidate after k.
C1_OrderDeterminism ==
    \A k \in DOMAIN cls :
        (Decisive(k) /\ Load(obj, cls[k]).kind = "ok") =>
            /\ Len(u_loads) <= k
            /\ u_loads = SubSeq(cls, 1, Len(u_loads))
            /\ u_pc # "loop" =>
                  /\ u_pc = "returned"
                  /\ u_out = [kind |-> "value", value |-> Load(obj, cls[k]).value]
                  /\ Len(u_loads) = k

\* C1 witness: the second of three candidates matched after the first failed,
\* and the third, which would have matched too, was never tried.
C1_Witness ==
    /\ u_pc = "returned"
    /\ Len(cls) = 3
    /\ Len(u_loads) = 2
    /\ Load(obj, cls[3]).kind = "ok"

\* C2: when load raises an error outside the JsonsError family for the
\* candidate at index k (every earlier one having raised a JsonsError), that
\* error leaves the deserializer, no later candidate is tried and no
\* DeserializationError is raised; and a candidate is only ever tried after
\* its predecessor raised a JsonsError.
C2_FailurePolicy ==
    /\ \A k \in DOMAIN cls :
          (Decisive(k) /\ Load(obj, cls[k]).kind = "OtherError") =>
              /\ Len(u_loads) <= k
              /\ u_pc # "loop" =>
                    /\ u_pc = "propagated"
                    /\ u_out = [kind |-> "OtherError"]
                    /\ u_loads = SubSeq(cls, 1, k)
    /\ \A i \in 2..Len(u_loads) : Load(obj, u_loads[i - 1]).kind = "JsonsError"

\* C2 witness: the second of three candidates raised a foreign error, which
\* was propagated with the third candidate untried.
C2_Witness ==
    /\ u_pc = "propagated"
    /\ Len(cls) = 3
    /\ Len(u_loads) = 2
    /\ Load(obj, cls[3]).kind = "ok"

\* C3: when load raises a JsonsError for every candidate, the deserializer
\* raises DeserializationError after trying each candidate once, in order, and
\* the message names every candidate and the runtime type of the input object.
C3_Exhaustion ==
    ((\A k \in DOMAIN cls : Load(obj, cls[k]).kind = "JsonsError") /\ u_pc # "loop") =>
        /\ u_pc = "raised"
        /\ u_loads = cls
        /\ u_out.kind = "DeserializationError"
        /\ u_out.args_msg = [k \in DOMAIN cls |-> cls[k].name]
        /\ u_out.objType = StrOfType(obj.rt)

\* ---------------------------------------------------------------- decorators
\* The positions in the log of the events of one kind.
Idx(op) == {k \in DOMAIN log : log[k].op = op}

\* An invocation of the wrapper has ended and none has started since.
Finished == a_pc = "ready" /\ outcome.kind # "none"

\* C4: decorating a staticmethod descriptor, a classmethod descriptor or a
\* class raises at decoration time and hands out no wrapper.
C4_WrapTimeRejection ==
    (decorated.kind \in {"staticmethod", "classmethod", "type"} /\ a_pc # "start") =>
        /\ a_pc = "decor_error"
        /\ wrapper = "none"
        /\ outcome.kind = "raised"

\* C5: within one invocation the decorated callable is called at most once,
\* every argument conversion precedes that call and the call receives one
\* argument per argument given; a return-value conversion comes after the
\* call and, in the async wrapper, after an await that has resolved.
C5_Ordering ==
    /\ Cardinality(Idx("call")) <= 1
    /\ \A c \in Idx("call") :
          /\ \A k \in Idx("convert") : k < c
          /\ Len(log[c].val.of) = Len(args)
    /\ \A r \in Idx("retconvert") :
          \E c \in Idx("call") :
             /\ c < r
             /\ wrapper = "_async_wrapper" =>
                   \E w \in Idx("await") :
                      c < w /\ w < r /\ log[w].val.ends = "resolved"

\* C5 witness: an invocation of the async wrapper that converted both of its
\* arguments, called the coroutine function, awaited it and converted the
\* value.
C5_Witness ==
    /\ Finished
    /\ wrapper = "_async_wrapper"
    /\ Cardinality(Idx("convert")) = 2
    /\ Idx("retconvert") # {}
    /\ outcome.kind = "returned"

\* C6 (as claimed): the invocations of a wrapper never introspect the
\* signature of the decorated callable.
C6_IntrospectOnce == Idx("signature") = {}

\* _map_args has called _get_params_sig in the current invocation.
PastSig == parameters /\ (a_pc \in {"map", "call", "await", "ret"} \/ Finished)

\* _map_returnvalue has run in the current invocation.
RetMapped ==
    /\ returnvalue
    /\ Finished
    /\ \/ outcome.kind = "returned"
       \/ outcome.kind = "raised" /\ outcome.error = "JsonsError" /\ outcome.pos = 0

\* C6 (amended): decorating introspects nothing; each invocation calls
\* signature(decorated) once when parameter conversion is on (before pairing
\* the arguments) and once more when return-value conversion is on and the
\* call has produced its result; with both off it never does.
C6_IntrospectPerCall ==
    /\ a_pc \in {"start", "decor_error"} => log = <<>>
    /\ Cardinality(Idx("signature")) =
          (IF PastSig THEN 1 ELSE 0) + (IF RetMapped THEN 1 ELSE 0)

\* C6 witness: a finished invocation that introspected the signature twice.
C6_Witness ==
    /\ Finished
    /\ parameters
    /\ returnvalue
    /\ outcome.kind = "returned"
    /\ Cardinality(Idx("signature")) = 2

\* The convert events for the argument at position i.
ConvertsAt(i) == {k \in Idx("convert") : log[k].pos = i}

\* C7: with parameter conversion on, a positional argument is passed on as it
\* is, with no request to the mapper, exactly if its parameter is named self
\* or cls and the argument has an attribute named like the decorated callable;
\* any other argument is handed to the mapper once, with the parameter's
\* annotation (None when there is none), and the mapper's value is passed on.
C7_ReceiverSkip ==
    (parameters /\ decorated.kind \in Callables) =>
        /\ \A i \in 1..Len(new_args) :
              LET name == decorated.params[i].name
                  annotation == decorated.params[i].annotation
                  target == IF annotation = Empty THEN None ELSE annotation
              IN IF name \in {"self", "cls"} /\ args[i].hasattr
                 THEN /\ new_args[i] = args[i]
                      /\ ConvertsAt(i) = {}
                 ELSE /\ Cardinality(ConvertsAt(i)) = 1
                      /\ \A k \in ConvertsAt(i) :
                            log[k].val = args[i] /\ log[k].cls = target
                      /\ new_args[i] = [kind |-> "mapped", of |-> args[i], cls |-> target]
        /\ \A c \in Idx("call") :
              log[c].val.of = new_args /\ Len(new_args) = Len(args)

\* C7 witness: a call went out whose first argument, for self, was passed on
\* as it was and whose second argument, for cls, lacked the attribute and was
\* converted.
C7_Witness ==
    /\ parameters
    /\ Idx("call") # {}
    /\ Len(args) = 2
    /\ decorated.params[1].name = "self" /\ args[1].hasattr
    /\ decorated.params[2].name = "cls" /\ ~args[2].hasattr
    /\ ConvertsAt(1) = {}
    /\ ConvertsAt(2) # {}

MappedArgs ==
    [i \in DOMAIN args |->
        IF decorated.params[i].name \in {"self", "cls"} /\ args[i].hasattr
        THEN args[i]
        ELSE [kind |-> "mapped", of |-> args[i],
              cls |-> IF decorated.params[i].annotation = Empty
                      THEN None ELSE decorated.params[i].annotation]]

\* C9: when the mapper fails for the argument at position i, that request is
\* the invocation's last event and its only request for position i: the
\* error leaves the wrapper, no later argument is converted, the decorated
\* callable is not called and the return value is not converted.  An
\* invocation made after a failed one calls the decorated callable with
\* exactly the arguments _map_args yields for it.
C9_FailureAborts ==
    /\ \A k \in Idx("convert") :
          log[k].val.conv = "JsonsError" =>
              /\ k = Len(log)
              /\ Cardinality(ConvertsAt(log[k].pos)) = 1
              /\ Idx("call") = {}
              /\ Idx("retconvert") = {}
              /\ Len(new_args) = log[k].pos - 1
              /\ a_pc = "ready"
              /\ outcome = Raised("JsonsError", log[k].pos)
    /\ (failedBefore /\ parameters) =>
          \A c \in Idx("call") : log[c].val.of = MappedArgs

\* C9 witness: after an invocation that failed in a conversion, an invocation
\* with two converted arguments has called the decorated callable and
\* returned.
C9_Witness ==
    /\ failedBefore
    /\ parameters
    /\ Finished
    /\ outcome.kind = "returned"
    /\ Cardinality(Idx("convert")) = 2

\* C10: with parameter conversion on, an invocation with more positional
\* arguments than the decorated callable has parameter names ends with
\* IndexError before any request to the mapper and without calling the
\* decorated callable; with parameter conversion off the arguments reach the
\* decorated callable as they were given.
C10_PairingBound ==
    decorated.kind \in Callables =>
        /\ (parameters /\ Len(args) > Len(decorated.params) /\ a_pc # "sig") =>
              /\ a_pc = "ready"
              /\ outcome = Raised("IndexError", 0)
              /\ Idx("convert") = {}
              /\ Idx("call") = {}
              /\ Idx("retconvert") = {}
        /\ ~parameters =>
              /\ Idx("convert") = {}
              /\ \A c \in Idx("call") : log[c].val.of = args

\* C10 witness: a callable with one parameter name was invoked with two
\* arguments and the invocation ended with IndexError.
C10_Witness ==
    /\ parameters
    /\ Len(decorated.params) = 1
    /\ Len(args) = 2
    /\ Finished
    /\ outcome.error = "IndexError"

====
